---- MODULE Spec2Model ----
(***************************************************************************)
(* Snake on a toroidal grid, driven by a small entity-component-system.    *)
(* The model follows src/snake.py: one game entity (id 0) carrying Grid,   *)
(* Snake, Velocity, Food, Score and GameState, and the three systems run   *)
(* in the order Input, Movement, Collision by World.update.                *)
(*                                                                         *)
(* Cells are <<x, y>>.  Directions are the strings "UP", "DOWN", "LEFT",   *)
(* "RIGHT"; the empty pending slot (Python None) is "None".                *)
(*                                                                         *)
(* pc is the position of the single thread of control:                     *)
(*   "new"   - no SnakeGame has been constructed yet                       *)
(*   "ready" - the constructor or the last update() has returned           *)
(*   "hung"  - control is inside the while-True loop of _respawn_food with *)
(*             every grid cell in the body: no draw is ever accepted       *)
(*   "error" - the constructor raised (random.randint on an empty range)   *)
(***************************************************************************)
EXTENDS Integers, Sequences, FiniteSets, TLC

VARIABLES pc, width, height, body, growth_pending, direction, food, score,
          score_changed, is_game_over, game_over_subject, pending_direction,
          ret, prev, last_set, earlier_set,
          next_entity_id, entities, components, call,
          sessions, subscribers, delivered

\* the game session: the game entity's components, the input slot, and the
\* history of the calls made on the session
gameVars == <<pc, width, height, body, growth_pending, direction, food, score,
              score_changed, is_game_over, game_over_subject,
              pending_direction, ret, prev, last_set, earlier_set>>

\* the World used as a container: the entity registry, the per-kind stores,
\* and the last call made on it with its outcome
worldVars == <<next_entity_id, entities, components, call>>

\* the notification channels of the sessions of one process
sessionVars == <<sessions, subscribers, delivered>>

vars == <<gameVars, worldVars, sessionVars>>

(***************************************************************************)
(* Bounds.                                                                 *)
(***************************************************************************)
\* small grids are MaxDim x MaxDim and below
MaxDim == 2
\* the driver stops calling update() once the score reaches MaxScore
MaxScore == 3
\* the driver stops calling update() after MaxNotify game-over emissions
MaxNotify == 2
\* score at which the driver stops on the 5x5 scenario grid
MaxScore5 == 1
\* entities created in one World
MaxEntities == 2

Direction == {"UP", "DOWN", "LEFT", "RIGHT"}

SmallSizes == {<<w, h>> : w \in 1..MaxDim, h \in 1..MaxDim}

\* non-positive dimensions handed to the constructor
BadSizes == {<<0, 2>>, <<2, 0>>, <<-1, 1>>}

ScenarioSizes == {<<5, 5>>}

(***************************************************************************)
(* Helpers.                                                                *)
(***************************************************************************)
Cells(b) == {b[i] : i \in 1..Len(b)}

GridCells(w, h) == {<<x, y>> : x \in 0..(w - 1), y \in 0..(h - 1)}

InGrid(c, w, h) == c[1] >= 0 /\ c[1] < w /\ c[2] >= 0 /\ c[2] < h

Opposite(d) ==
  CASE d = "UP" -> "DOWN"
    [] d = "DOWN" -> "UP"
    [] d = "LEFT" -> "RIGHT"
    [] d = "RIGHT" -> "LEFT"

NoTick ==
  [valid |-> FALSE, direction |-> "RIGHT", pending |-> "None",
   head |-> <<0, 0>>, food |-> <<0, 0>>, gp |-> 0, len |-> 0, score |-> 0,
   over |-> FALSE, tail |-> <<0, 0>>, last_set |-> "None",
   earlier_set |-> "None"]

(***************************************************************************)
(* InputSystem.update: the velocity after the pending direction has been   *)
(* consumed.  A 180-degree turn is not applied.                            *)
(***************************************************************************)
InputNoReverseCheck(vel, pend) == IF pend # "None" THEN pend ELSE vel

InputSystemUpdate(vel, pend) ==
  IF pend # "None"
     /\ \/ (pend = "UP" /\ vel # "DOWN")
        \/ (pend = "DOWN" /\ vel # "UP")
        \/ (pend = "LEFT" /\ vel # "RIGHT")
        \/ (pend = "RIGHT" /\ vel # "LEFT")
  THEN pend
  ELSE vel

\* InputSystem.update: the pending slot is cleared whenever it was occupied,
\* applied or not
PendingKeptWhenRejected(vel, pend) ==
  IF InputSystemUpdate(vel, pend) = pend THEN "None" ELSE pend

PendingAfterUpdate(vel, pend) == "None"

\* InputSystem.set_direction: the slot is overwritten by the new value
SlotKeepFirst(pend, d) == IF pend = "None" THEN d ELSE pend

SlotAfterSet(pend, d) == d

(***************************************************************************)
(* World.update runs the systems in list order, and the constructor adds   *)
(* InputSystem before MovementSystem: the velocity MovementSystem reads is *)
(* the one InputSystem has just written.                                   *)
(***************************************************************************)
MovementVelocityStale(vel, pend) == vel

MovementVelocity(vel, pend) == InputSystemUpdate(vel, pend)

(***************************************************************************)
(* MovementSystem.update, the new head: one step, each axis modulo the     *)
(* grid (Python % with a positive modulus is non-negative, as is TLA+ %).  *)
(***************************************************************************)
NewHeadNoWrap(head, d, w, h) ==
  CASE d = "UP" -> <<head[1], (head[2] - 1) % h>>
    [] d = "DOWN" -> <<head[1], head[2] + 1>>
    [] d = "LEFT" -> <<(head[1] - 1) % w, head[2]>>
    [] d = "RIGHT" -> <<head[1] + 1, head[2]>>

NewHead(head, d, w, h) ==
  CASE d = "UP" -> <<head[1], (head[2] - 1) % h>>
    [] d = "DOWN" -> <<head[1], (head[2] + 1) % h>>
    [] d = "LEFT" -> <<(head[1] - 1) % w, head[2]>>
    [] d = "RIGHT" -> <<(head[1] + 1) % w, head[2]>>

(***************************************************************************)
(* MovementSystem.update, the body: insert the new head, then either use   *)
(* up one pending growth or pop the tail.                                  *)
(***************************************************************************)
MovementSystemUpdateInverted(b, gp, d, w, h) ==
  LET ins == <<NewHead(b[1], d, w, h)>> \o b
  IN  IF gp > 0
      THEN [body |-> SubSeq(ins, 1, Len(ins) - 1), growth_pending |-> gp - 1]
      ELSE [body |-> ins, growth_pending |-> gp]

MovementSystemUpdate(b, gp, d, w, h) ==
  LET ins == <<NewHead(b[1], d, w, h)>> \o b
  IN  IF gp > 0
      THEN [body |-> ins, growth_pending |-> gp - 1]
      ELSE [body |-> SubSeq(ins, 1, Len(ins) - 1), growth_pending |-> gp]

(***************************************************************************)
(* CollisionSystem.update, the two tests on the post-move body.            *)
(***************************************************************************)
FoodCollision(b, f) == b[1] = f

SelfCollisionWholeBody(b) == \E i \in 1..Len(b) : b[i] = b[1]

SelfCollisionSkipNeck(b) == \E i \in 3..Len(b) : b[i] = b[1]

SelfCollision(b) == \E i \in 2..Len(b) : b[i] = b[1]

\* growth_pending and score.value after a food collision
GrowthAfterEatNone(gp) == gp

GrowthAfterEatTwo(gp) == gp + 2

GrowthAfterEat(gp) == gp + 1

ScoreAfterEatDouble(s) == s + 2

ScoreAfterEat(s) == s + 1

\* is_game_over after the self-collision test: only ever assigned True
GameOverFlagRecomputed(over, hit) == hit

GameOverFlag(over, hit) == IF hit THEN TRUE ELSE over

\* game_over_subject.on_next(True) is called on every tick that detects a hit
GameOverEmissions(n, hit) == IF hit THEN n + 1 ELSE n

(***************************************************************************)
(* CollisionSystem._respawn_food: the set of outcomes of the retry loop.   *)
(* randint(0, w - 1) raises ValueError on an empty range.  With all cells  *)
(* in the body every draw is rejected and the loop never exits.  Otherwise *)
(* the loop ends (with probability 1) on some cell that is not in the body.*)
(***************************************************************************)
RespawnFoodNoRaise(b, f, w, h) ==
  IF GridCells(w, h) \subseteq Cells(b)
  THEN {[pc |-> "hung", food |-> f]}
  ELSE {[pc |-> "ready", food |-> c] : c \in GridCells(w, h) \ Cells(b)}

RespawnFoodOntoBody(b, f, w, h) ==
  IF w <= 0 \/ h <= 0
  THEN {[pc |-> "error", food |-> f]}
  ELSE IF GridCells(w, h) \subseteq Cells(b)
       THEN {[pc |-> "hung", food |-> f]}
       ELSE {[pc |-> "ready", food |-> c] : c \in GridCells(w, h) \ {b[1]}}

RespawnFoodAnyCell(b, f, w, h) ==
  IF w <= 0 \/ h <= 0
  THEN {[pc |-> "error", food |-> f]}
  ELSE IF GridCells(w, h) \subseteq Cells(b)
       THEN {[pc |-> "hung", food |-> f]}
       ELSE {[pc |-> "ready", food |-> c] : c \in GridCells(w, h)}

RespawnFood(b, f, w, h) ==
  IF w <= 0 \/ h <= 0
  THEN {[pc |-> "error", food |-> f]}
  ELSE IF GridCells(w, h) \subseteq Cells(b)
       THEN {[pc |-> "hung", food |-> f]}
       ELSE {[pc |-> "ready", food |-> c] : c \in GridCells(w, h) \ Cells(b)}

(***************************************************************************)
(* World as a container.  Component kinds stand for the component classes, *)
(* values for instances of them; "None" is Python None.  A store is the    *)
(* dict of one kind in insertion order, as a sequence of [id, value].      *)
(***************************************************************************)
Kinds == {"Position", "Velocity"}

Values == {"v1", "v2"}

NoComponents == [k \in Kinds |-> "None"]

NoCall ==
  [op |-> "none", id |-> 0, kind |-> "Position", value |-> "None",
   result |-> "None", had |-> FALSE]

\* the ids a caller may pass: those created and one that never was
CallIds == 0..MaxEntities

\* dict assignment store[id] = v: an existing key keeps its place
StorePutMoveToEnd(store, id, v) ==
  Append(SelectSeq(store, LAMBDA e : e.id # id), [id |-> id, value |-> v])

StorePut(store, id, v) ==
  IF \E i \in 1..Len(store) : store[i].id = id
  THEN [i \in 1..Len(store) |->
          IF store[i].id = id THEN [id |-> id, value |-> v] ELSE store[i]]
  ELSE Append(store, [id |-> id, value |-> v])

\* World.get_entities_with_component
EntitiesWith(k) == [i \in 1..Len(components[k]) |-> components[k][i].id]

\* World.get_component: entities[id] raises KeyError for an unknown id, and
\* .get(kind) gives None for a kind the entity does not have
GetComponentResult(id, k) ==
  IF id \in DOMAIN entities THEN entities[id][k] ELSE "KeyError"

(***************************************************************************)
(* Notification channels.  Score() and GameState() are built with no       *)
(* arguments, so each instance gets the dataclass default: the one Subject *)
(* object made when the class body was evaluated.                          *)
(***************************************************************************)
SessionNames == {"A", "B"}

Channels == {"score_changed", "game_over_subject"}

SubjectOf(s, ch) ==
  IF ch = "score_changed" THEN "Score.score_changed"
                          ELSE "GameState.game_over_subject"

Subjects == {SubjectOf(s, ch) : s \in SessionNames, ch \in Channels}

(***************************************************************************)
(* State before SnakeGame(width, height) is called.                        *)
(***************************************************************************)
Init ==
  /\ pc = "new"
  /\ width = 0
  /\ height = 0
  /\ body = <<>>
  /\ growth_pending = 0
  /\ direction = "RIGHT"
  /\ food = <<0, 0>>
  /\ score = 0
  /\ score_changed = <<>>
  /\ is_game_over = FALSE
  /\ game_over_subject = 0
  /\ pending_direction = "None"
  /\ ret = "none"
  /\ prev = NoTick
  /\ last_set = "None"
  /\ earlier_set = "None"
  /\ next_entity_id = 0
  /\ entities = <<>>
  /\ components = [k \in Kinds |-> <<>>]
  /\ call = NoCall
  /\ sessions = {}
  /\ subscribers = [sub \in Subjects |-> {}]
  /\ delivered = {}

(***************************************************************************)
(* SnakeGame.__init__(w, h): the game entity's components, then the first  *)
(* food spawn.                                                             *)
(***************************************************************************)
CreateGame(sizes) ==
  /\ pc = "new"
  /\ \E s \in sizes :
       LET w == s[1]
           h == s[2]
           b == <<<<w \div 2, h \div 2>>>>
       IN  /\ width' = w
           /\ height' = h
           /\ body' = b
           /\ growth_pending' = 0
           /\ direction' = "RIGHT"
           /\ score' = 0
           /\ is_game_over' = FALSE
           /\ pending_direction' = "None"
           /\ \E r \in RespawnFood(b, <<0, 0>>, w, h) :
                /\ food' = r.food
                /\ pc' = r.pc
  /\ UNCHANGED <<score_changed, game_over_subject, ret, prev, last_set,
                 earlier_set>>
  /\ UNCHANGED <<worldVars, sessionVars>>

(***************************************************************************)
(* SnakeGame.set_direction(d) -> InputSystem.set_direction(d).             *)
(***************************************************************************)
SetDirectionTo(d) ==
  /\ pc = "ready"
  /\ pending_direction' = SlotAfterSet(pending_direction, d)
  /\ UNCHANGED <<pc, width, height, body, growth_pending, direction, food,
                 score, score_changed, is_game_over, game_over_subject, ret,
                 prev>>
  /\ UNCHANGED <<worldVars, sessionVars>>

SetDirection ==
  \E d \in Direction : SetDirectionTo(d) /\ UNCHANGED <<last_set, earlier_set>>

\* the same call, with the arguments of the last two calls since the last
\* tick kept as history
SetDirectionLogged ==
  \E d \in Direction :
    SetDirectionTo(d) /\ last_set' = d /\ earlier_set' = last_set

(***************************************************************************)
(* SnakeGame.update(): one World.update (Input, Movement, Collision) and   *)
(* the return of is_game_over.  When the respawn loop does not exit, the   *)
(* self-collision test and the return are never reached.                   *)
(***************************************************************************)
Update(cap) ==
  /\ pc = "ready"
  /\ score < cap
  /\ game_over_subject < MaxNotify
  /\ LET vel == InputSystemUpdate(direction, pending_direction)
         mv  == MovementSystemUpdate(body, growth_pending,
                  MovementVelocity(direction, pending_direction),
                  width, height)
         ate == FoodCollision(mv.body, food)
         hit == SelfCollision(mv.body)
     IN  /\ direction' = vel
         /\ pending_direction' =
              PendingAfterUpdate(direction, pending_direction)
         /\ last_set' = "None"
         /\ earlier_set' = "None"
         /\ body' = mv.body
         /\ prev' = [valid |-> TRUE, direction |-> direction,
                     pending |-> pending_direction, head |-> body[1],
                     food |-> food, gp |-> growth_pending, len |-> Len(body),
                     score |-> score, over |-> is_game_over,
                     tail |-> body[Len(body)], last_set |-> last_set,
                     earlier_set |-> earlier_set]
         /\ growth_pending' = IF ate THEN GrowthAfterEat(mv.growth_pending)
                                     ELSE mv.growth_pending
         /\ score' = IF ate THEN ScoreAfterEat(score) ELSE score
         /\ score_changed' = IF ate THEN Append(score_changed, score')
                                    ELSE score_changed
         /\ \E r \in (IF ate THEN RespawnFood(mv.body, food, width, height)
                             ELSE {[pc |-> "ready", food |-> food]}) :
              /\ food' = r.food
              /\ pc' = r.pc
              /\ IF r.pc = "ready"
                 THEN /\ is_game_over' = GameOverFlag(is_game_over, hit)
                      /\ game_over_subject' =
                           GameOverEmissions(game_over_subject, hit)
                      /\ ret' = IF is_game_over' THEN "True" ELSE "False"
                 ELSE UNCHANGED <<is_game_over, game_over_subject, ret>>
  /\ UNCHANGED <<width, height>>
  /\ UNCHANGED <<worldVars, sessionVars>>

CreateSmall == CreateGame(SmallSizes \cup BadSizes)

Advance == Update(MaxScore)

Next == CreateSmall \/ SetDirection \/ Advance

Spec == Init /\ [][Next]_vars

\* the 5x5 grid of the scenarios
CreateScenario == CreateGame(ScenarioSizes)

Advance5 == Update(MaxScore5)

Next5 == CreateScenario \/ SetDirection \/ Advance5

Spec5 == Init /\ [][Next5]_vars

\* one 2x2 session with the set_direction calls logged
InputSizes == {<<2, 2>>}

CreateInput == CreateGame(InputSizes)

NextInput == CreateInput \/ SetDirectionLogged \/ Advance

SpecInput == Init /\ [][NextInput]_vars

(***************************************************************************)
(* World.create_entity, add_component, get_component called by any client. *)
(***************************************************************************)
CreateEntity ==
  /\ next_entity_id < MaxEntities
  /\ next_entity_id' = next_entity_id + 1
  /\ entities' = [id \in 0..next_entity_id |->
                    IF id = next_entity_id THEN NoComponents ELSE entities[id]]
  /\ call' = [NoCall EXCEPT !.op = "create", !.id = next_entity_id,
                            !.result = "ok"]
  /\ UNCHANGED <<components, gameVars, sessionVars>>

AddComponent ==
  \E id \in CallIds, k \in Kinds, v \in Values :
    IF id \in DOMAIN entities
    THEN /\ entities' = [entities EXCEPT ![id][k] = v]
         /\ components' = [components EXCEPT ![k] = StorePut(@, id, v)]
         /\ call' = [op |-> "add", id |-> id, kind |-> k, value |-> v,
                     result |-> "ok", had |-> entities[id][k] # "None"]
         /\ UNCHANGED <<next_entity_id, gameVars, sessionVars>>
    ELSE /\ call' = [op |-> "add", id |-> id, kind |-> k, value |-> v,
                     result |-> "KeyError", had |-> FALSE]
         /\ UNCHANGED <<next_entity_id, entities, components, gameVars,
                        sessionVars>>

GetComponent ==
  \E id \in CallIds, k \in Kinds :
    /\ call' = [op |-> "get", id |-> id, kind |-> k, value |-> "None",
                result |-> GetComponentResult(id, k), had |-> FALSE]
    /\ UNCHANGED <<next_entity_id, entities, components, gameVars,
                   sessionVars>>

NextWorld == CreateEntity \/ AddComponent \/ GetComponent

SpecWorld == Init /\ [][NextWorld]_vars

(***************************************************************************)
(* Two sessions in one process: construction, a subscription made through  *)
(* a session's Score or GameState component, and an event of a session     *)
(* (food eaten, self-collision) passed to on_next of its component's       *)
(* Subject, which calls every subscriber of that Subject.                  *)
(***************************************************************************)
NewSession ==
  \E s \in SessionNames \ sessions :
    /\ sessions' = sessions \cup {s}
    /\ UNCHANGED <<subscribers, delivered, gameVars, worldVars>>

Subscribe ==
  \E s \in sessions, ch \in Channels :
    /\ subscribers' =
         [subscribers EXCEPT ![SubjectOf(s, ch)] = @ \cup {[to |-> s, ch |-> ch]}]
    /\ UNCHANGED <<sessions, delivered, gameVars, worldVars>>

Emit ==
  \E s \in sessions, ch \in Channels :
    /\ delivered' = delivered \cup
         {[to |-> r.to, from |-> s, ch |-> ch] :
            r \in subscribers[SubjectOf(s, ch)]}
    /\ UNCHANGED <<sessions, subscribers, gameVars, worldVars>>

NextSessions == NewSession \/ Subscribe \/ Emit

SpecSessions == Init /\ [][NextSessions]_vars

(***************************************************************************)
(* Properties.  prev is the snapshot update() takes on entry, so a state   *)
(* with prev.valid is a state after some tick, and prev holds the heading, *)
(* pending slot, head, food, growth, length, score and game-over flag that *)
(* tick started from.                                                      *)
(***************************************************************************)

\* C1: once is_game_over is true it stays true over every later operation,
\* and update() has returned and keeps returning True.
GameOverMonotone ==
  [][is_game_over => (is_game_over' /\ ret' = "True")]_vars

\* a tick run after the game was already over, with no collision on it
GameOverMonotoneWitness ==
  /\ pc = "ready"
  /\ prev.valid
  /\ prev.over
  /\ is_game_over
  /\ ret = "True"
  /\ ~SelfCollision(body)

\* C2: the game-over notification is emitted at most once in a session.
GameOverFiresOnce == game_over_subject <= 1

\* C3: after a tick the heading is never the opposite of the heading the
\* tick started with; a pending reverse leaves the heading as it was and the
\* head moves one step in that heading.
NoReverse ==
  prev.valid =>
    /\ direction # Opposite(prev.direction)
    /\ prev.pending = Opposite(prev.direction) =>
         /\ direction = prev.direction
         /\ body[1] = NewHead(prev.head, prev.direction, width, height)

NoReverseWitness ==
  /\ prev.valid
  /\ prev.pending = Opposite(prev.direction)
  /\ direction = prev.direction
  /\ body[1] # prev.head

\* C4: every body cell is inside the grid, and one step from the head in any
\* heading is inside the grid.
WrapInvariant ==
  pc \in {"ready", "hung"} =>
    /\ \A i \in 1..Len(body) : InGrid(body[i], width, height)
    /\ \A d \in Direction :
         InGrid(NewHead(body[1], d, width, height), width, height)

\* a step off the right edge that came back in at column 0
WrapWitness ==
  /\ prev.valid
  /\ width >= 2
  /\ prev.head[1] = width - 1
  /\ direction = "RIGHT"
  /\ body[1][1] = 0

\* C5: after a tick the body length is 1 plus the number of foods eaten on
\* earlier ticks: the tick grows the body exactly when the tick before it
\* ate, and a tick that eats leaves growth_pending = 1 for the next one.
GrowthInvariant ==
  prev.valid =>
    /\ Len(body) = 1 + prev.score
    /\ Len(body) = prev.len + prev.gp
    /\ growth_pending = (IF body[1] = prev.food THEN 1 ELSE 0)

\* the tick after an eating tick: the body has grown to 2
GrowthWitness ==
  /\ prev.valid
  /\ prev.gp = 1
  /\ prev.len = 1
  /\ Len(body) = 2
  /\ score = 1
  /\ growth_pending = 0
  /\ ~is_game_over

\* C6: the score grows by exactly 1 on a tick whose post-move head is the
\* food cell and is unchanged otherwise; the values emitted on score_changed
\* are 1, 2, ..., score, one per increment.
ScoreMonotone ==
  /\ ~prev.valid => score = 0
  /\ prev.valid =>
       score = prev.score + (IF body[1] = prev.food THEN 1 ELSE 0)
  /\ score >= prev.score
  /\ Len(score_changed) = score
  /\ \A i \in 1..Len(score_changed) : score_changed[i] = i

ScoreWitness ==
  /\ prev.valid
  /\ prev.score = 1
  /\ score = 2
  /\ score_changed = <<1, 2>>

\* C7: whenever the constructor or a tick has returned, the food cell is in
\* the grid and on no body cell.
FoodNeverOnBody ==
  pc = "ready" => food \notin Cells(body) /\ InGrid(food, width, height)

\* a respawn caused by eating, with a body of two cells
FoodRespawnWitness ==
  /\ pc = "ready"
  /\ prev.valid
  /\ body[1] = prev.food
  /\ Len(body) = 2
  /\ food # prev.food

\* C8: the food respawn always ends: control never stays in the retry loop.
RespawnTerminates == pc # "hung"

\* C9: the move of a tick uses the heading the Input system has just set,
\* and the food test is made on the head after the move.  On the 5x5 grid,
\* from (2,2) heading Right with Down pending, the body becomes [(2,3)].
TickOrder ==
  prev.valid =>
    /\ direction = InputSystemUpdate(prev.direction, prev.pending)
    /\ body[1] = NewHead(prev.head, direction, width, height)
    /\ (score = prev.score + 1) <=> (body[1] = prev.food)
    /\ pc = "ready" => (is_game_over <=> (prev.over \/ SelfCollision(body)))
    /\ ( /\ width = 5
         /\ height = 5
         /\ prev.head = <<2, 2>>
         /\ prev.len = 1
         /\ prev.gp = 0
         /\ prev.direction = "RIGHT"
         /\ prev.pending = "DOWN" ) => body = << <<2, 3>> >>

TickOrderWitness ==
  /\ prev.valid
  /\ width = 5
  /\ height = 5
  /\ prev.head = <<2, 2>>
  /\ prev.score = 0
  /\ prev.direction = "RIGHT"
  /\ prev.pending = "DOWN"
  /\ body = << <<2, 3>> >>

\* the tick of the food-eating scenario: 5x5, body [(1,1)], food (2,1),
\* heading Right, nothing pending
EatScenario ==
  /\ prev.valid
  /\ width = 5
  /\ height = 5
  /\ prev.len = 1
  /\ prev.head = <<1, 1>>
  /\ prev.food = <<2, 1>>
  /\ prev.direction = "RIGHT"
  /\ prev.pending = "None"
  /\ prev.gp = 0
  /\ prev.score = 0

\* C10 as stated: the head moves to (2,1), score and growth_pending become
\* 1, and the new food cell is neither (2,1) nor (1,1).
EatScenarioAsStated ==
  EatScenario =>
    /\ body[1] = <<2, 1>>
    /\ score = 1
    /\ growth_pending = 1
    /\ food \notin {<<2, 1>>, <<1, 1>>}

\* C10 amended: the head moves to (2,1), the body is [(2,1)], score and
\* growth_pending become 1, and the new food cell is a grid cell other than
\* (2,1); the vacated cell (1,1) is not excluded.
EatScenarioAmended ==
  EatScenario =>
    /\ body = << <<2, 1>> >>
    /\ score = 1
    /\ growth_pending = 1
    /\ food # <<2, 1>>
    /\ InGrid(food, width, height)

EatScenarioWitness ==
  /\ EatScenario
  /\ pc = "ready"
  /\ score = 1
  /\ food = <<3, 3>>

\* C11: get_component on an id that create_entity never returned gives the
\* absent value and does not raise.
LookupNeverRaises ==
  (call.op = "get" /\ call.id \notin DOMAIN entities) => call.result = "None"

\* C12: a constructor call with a non-positive width or height ends in an
\* error and nothing else, and no call was ever run on such a session.
InvalidConfigRejected ==
  /\ pc # "new" => ((width <= 0 \/ height <= 0) <=> pc = "error")
  /\ pc = "error" =>
       ~prev.valid /\ ret = "none" /\ pending_direction = "None"

\* width is positive, so the first draw succeeds and the second one raises
InvalidConfigWitness ==
  /\ pc = "error"
  /\ width = 2
  /\ height = 0

\* C13: add_component on an existing id does not raise; afterwards the
\* lookup gives the value just written and the kind's store lists the id
\* once; no step moves an id already in a store, and a step changes an
\* entity's component only if it is the add for that entity and kind.
LastWriteWins ==
  /\ [](call.op = "add" /\ call.id \in DOMAIN entities =>
          /\ call.result = "ok"
          /\ GetComponentResult(call.id, call.kind) = call.value
          /\ Cardinality({i \in 1..Len(components[call.kind]) :
                            EntitiesWith(call.kind)[i] = call.id}) = 1)
  /\ [][ /\ \A k \in Kinds :
              /\ Len(components'[k]) >= Len(components[k])
              /\ \A i \in 1..Len(components[k]) :
                   components'[k][i].id = components[k][i].id
          /\ \A id \in DOMAIN entities :
               \A kk \in Kinds :
                 entities'[id][kk] # entities[id][kk] =>
                   /\ call'.op = "add"
                   /\ call'.id = id
                   /\ call'.kind = kk ]_vars

\* an overwrite of the first of two entries of a store
LastWriteWinsWitness ==
  /\ call.op = "add"
  /\ call.had
  /\ call.result = "ok"
  /\ Len(components[call.kind]) = 2
  /\ components[call.kind][1] = [id |-> call.id, value |-> call.value]

\* C14: a subscriber registered through one session is only ever called by
\* events of that session.
ChannelsIndependent == \A d \in delivered : d.to = d.from

\* C15: after a tick is_game_over is true exactly when it was true before
\* or the head cell occurs more than once in the body.
SelfCollisionDetected ==
  prev.valid =>
    (is_game_over <=>
       (prev.over \/ Cardinality({i \in 1..Len(body) : body[i] = body[1]}) > 1))

\* the head moved into the cell the tail left on the same tick: no collision
TailVacatedWitness ==
  /\ pc = "ready"
  /\ prev.valid
  /\ prev.gp = 0
  /\ prev.len >= 2
  /\ body[1] = prev.tail
  /\ ~is_game_over

\* C16: while is_game_over is false the body cells are pairwise distinct.
BodyDistinctWhileRunning ==
  (pc \in {"ready", "hung"} /\ ~is_game_over) =>
    \A i, j \in 1..Len(body) : i # j => body[i] # body[j]

BodyDistinctWitness ==
  /\ pc = "ready"
  /\ prev.valid
  /\ ~is_game_over
  /\ Len(body) = 3

\* C17: every tick leaves the pending slot empty, and a tick that starts
\* with the slot empty keeps the heading.
PendingSingleUse ==
  /\ [](prev.valid /\ prev.pending = "None" => direction = prev.direction)
  /\ [][Advance => pending_direction' = "None"]_vars

\* the second tick after a rejected reverse: heading still Up, slot empty
PendingSingleUseWitness ==
  /\ prev.valid
  /\ prev.pending = "None"
  /\ prev.direction = "UP"
  /\ direction = "UP"
  /\ pending_direction = "None"

\* C18: the slot holds the argument of the last set_direction call since the
\* last tick, and the tick applies the no-reverse rule to that value alone:
\* heading Right, calls Down then Left, the heading stays Right.
LastSetWins ==
  /\ pending_direction = last_set
  /\ prev.valid =>
       direction = InputSystemUpdate(prev.direction, prev.last_set)
  /\ ( /\ prev.valid
       /\ prev.direction = "RIGHT"
       /\ prev.earlier_set = "DOWN"
       /\ prev.last_set = "LEFT" ) => direction = "RIGHT"

LastSetWinsWitness ==
  /\ prev.valid
  /\ prev.direction = "RIGHT"
  /\ prev.earlier_set = "DOWN"
  /\ prev.last_set = "LEFT"
  /\ direction = "RIGHT"
  /\ body[1] = NewHead(prev.head, "RIGHT", width, height)

\* C19: once the session exists growth_pending is 0 or 1 and
\* body length + growth_pending = 1 + score.
GrowthPendingBounded ==
  pc # "new" =>
    /\ growth_pending \in {0, 1}
    /\ Len(body) + growth_pending = 1 + score

GrowthPendingWitness ==
  /\ pc = "ready"
  /\ growth_pending = 1
  /\ Len(body) = 2
  /\ score = 2

\* C20: a tick that eats (the score went up) detects no self-collision: the
\* head cell occurs once in the body and is_game_over is as it was.
EatExcludesSelfCollision ==
  (prev.valid /\ score = prev.score + 1) =>
    /\ Cardinality({i \in 1..Len(body) : body[i] = body[1]}) = 1
    /\ is_game_over = prev.over

EatExcludesWitness ==
  /\ pc = "ready"
  /\ prev.valid
  /\ body[1] = prev.food
  /\ score = prev.score + 1
  /\ Len(body) = 3
  /\ ~is_game_over

====
